---- MODULE Spec2Model ----
(***************************************************************************)
(* The netlify_site resource of terraform-provider-netlify                 *)
(* (netlify/resource_site.go): the four lifecycle handlers Create, Read,   *)
(* Update and Delete, the importer, and the payload builder                *)
(* resourceSite_setupStruct, run against a remote API that stores the      *)
(* payloads it receives, may fail any call, and may change out of band.    *)
(*                                                                         *)
(* Representation.  A Go string is a TLA+ string.  A nil-able pointer      *)
(* (SiteSetup.Repo, Site.BuildSettings) and the schema's TypeList with     *)
(* MaxItems 1 are sequences of length 0 (nil / empty list) or 1.  The Go   *)
(* field RepoInfo.InstallationID is an integer that the JSON encoding      *)
(* omits when it is zero, so a payload "carries" installation_id exactly   *)
(* when the field is non-zero.  An error is a record of its Go type and    *)
(* its status code; the nil error is NoErr.                                *)
(***************************************************************************)
EXTENDS Integers, Sequences, FiniteSets, TLC

VARIABLES
    d,        \* the schema.ResourceData of the resource (Tracked State)
    remote,   \* the remote API's sites: site ID -> <<>> (none) or <<site>>
    nextId,   \* number of sites the remote API has created so far
    op,       \* the lifecycle verb invoked last
    d0,       \* the ResourceData that verb was handed
    calls,    \* the remote API calls that verb issued, in order
    ret       \* the error that verb returned (NoErr: nil)

vars == <<d, remote, nextId, op, d0, calls, ret>>

(***************************************************************************)
(* Bounds and input sets                                                   *)
(***************************************************************************)
\* Number of sites the remote API creates in one behaviour.
MaxSites == 2

StatusNotFound == 404

SiteIdOf(n) == "site" \o ToString(n)

SiteIds == {SiteIdOf(n) : n \in 1..MaxSites}

NoErr == [type |-> "nil", code |-> 0]

\* The error type the generated client returns for a non-2xx answer to api
\* (operations.GetSiteDefault for get-site, and so on).
DefaultError(api, code) == [type |-> api \o "-default", code |-> code]

\* Failures of a call other than not-found: an API error status, or a
\* transport error that carries no status.
Failures(api) == {DefaultError(api, 500), [type |-> "transport", code |-> 0]}

\* What a call may be made to answer: success or one of its failures.
Outcomes(api) == {NoErr} \cup Failures(api)

\* What the environment may do to a mutation followed by a read: fail the
\* mutation (fail1), or let it succeed and then remove the site out of band
\* (gone) and answer the trailing get-site call (fail2).
MutationOutcomes(api) ==
    {[fail1 |-> f, gone |-> FALSE, fail2 |-> NoErr] : f \in Failures(api)}
    \cup [fail1 : {NoErr}, gone : BOOLEAN, fail2 : Outcomes("get-site")]

\* The repo blocks a configuration may declare (required fields non-empty;
\* installation_id is Computed, hence not part of a configuration).
GitlabRepo ==
    [command |-> "npm run build", deploy_key_id |-> "key1", dir |-> "web",
     provider |-> "gitlab", repo_path |-> "grp/proj", repo_branch |-> "dev"]

GithubRepo ==
    [command |-> "", deploy_key_id |-> "", dir |-> "",
     provider |-> "github", repo_path |-> "org/repo", repo_branch |-> "main"]

\* A configuration: the Optional attributes of the schema.
Config(name, domain, slug, repo) ==
    [name |-> name, custom_domain |-> domain, account_slug |-> slug,
     repo |-> repo]

\* The configurations the orchestrator may hand to Create and Update.
Declared ==
    {Config("", "", "team-x", <<>>),
     Config("site1", "example.com", "", <<>>),
     Config("site1", "", "", <<GitlabRepo>>),
     Config("", "example.com", "team-x", <<GithubRepo>>)}

(***************************************************************************)
(* Schema: the ResourceData                                                *)
(***************************************************************************)
\* A ResourceData with no ID and every attribute at its zero value.
EmptyData ==
    [id |-> "", name |-> "", custom_domain |-> "", deploy_url |-> "",
     account_slug |-> "", account_name |-> "", repo |-> <<>>]

\* The repo block of a ResourceData: the declared fields plus the Computed
\* installation_id.
RepoBlock(r, inst) ==
    [command |-> r.command, deploy_key_id |-> r.deploy_key_id, dir |-> r.dir,
     provider |-> r.provider, repo_path |-> r.repo_path,
     repo_branch |-> r.repo_branch, installation_id |-> inst]

\* The ResourceData a handler is given for configuration decl when the
\* tracked state is st.  Optional attributes take the configuration's value;
\* Optional+Computed attributes (name, account_slug) keep the tracked value
\* when the configuration leaves them unset; Computed attributes
\* (deploy_url, account_name, repo.installation_id) keep the tracked value,
\* which is the zero value when nothing is tracked.
Planned(st, decl) ==
    [id |-> st.id,
     name |-> IF decl.name # "" THEN decl.name ELSE st.name,
     custom_domain |-> decl.custom_domain,
     deploy_url |-> st.deploy_url,
     account_slug |-> IF decl.account_slug # "" THEN decl.account_slug
                      ELSE st.account_slug,
     account_name |-> st.account_name,
     repo |-> IF decl.repo = <<>> THEN <<>>
              ELSE <<RepoBlock(decl.repo[1],
                               IF st.repo = <<>> THEN 0
                               ELSE st.repo[1].installation_id)>>]

\* d.GetOk(key) for a TypeString attribute: set and not the empty string.
GetOkString(v) == v # ""

\* d.GetOk(key) for a TypeList attribute: set and not the empty list.
GetOkList(v) == Len(v) > 0

(***************************************************************************)
(* The remote API                                                          *)
(***************************************************************************)
\* One call on the remote API: the operation, the site ID it is scoped to,
\* the account slug and the setup payload (each empty when the operation
\* takes none), and the error the call answered (NoErr: success).
Call(api, id, slug, payload, answer) ==
    [api |-> api, site_id |-> id, account_slug |-> slug, payload |-> payload,
     answer |-> answer]

\* The answer of a call scoped to a site: the failure the environment
\* injects, else the API's not-found status when the site does not exist.
Answer(api, found, fail) ==
    IF fail # NoErr THEN fail
    ELSE IF found = <<>> THEN DefaultError(api, StatusNotFound)
    ELSE NoErr

\* The site stored under id, <<>> when there is none.
Lookup(rem, id) == IF id \in DOMAIN rem THEN rem[id] ELSE <<>>

\* The installation ID the server derives for a repository of a provider.
ServerInstallationId(provider) == IF provider = "gitlab" THEN 41 ELSE 42

\* The build settings the server stores for a payload's repo object: the
\* payload's fields, with the installation ID derived by the server when
\* the payload carries none.
ServerBuildSettings(repo) ==
    [repo EXCEPT !.installation_id =
        IF @ = 0 THEN ServerInstallationId(repo.provider) ELSE @]

AccountNameOf(slug) == IF slug = "team-x" THEN "Team X" ELSE "Personal"

\* The site the server creates under id for a create-site (slug = "") or
\* create-site-in-team call: it stores the payload, names the site itself
\* when the payload has no name, and files it under the caller's default
\* account when no team is given.
ServerCreate(id, slug, payload) ==
    [name |-> IF payload.name = "" THEN "gen-" \o id ELSE payload.name,
     custom_domain |-> payload.custom_domain,
     deploy_url |-> "http://" \o id,
     account_slug |-> IF slug = "" THEN "me" ELSE slug,
     account_name |-> AccountNameOf(slug),
     build_settings |-> IF payload.repo = <<>> THEN <<>>
                        ELSE <<ServerBuildSettings(payload.repo[1])>>]

\* The site after update-site: the fields the payload carries replace the
\* stored ones; the fields it omits (empty strings, nil repo) are kept.
ServerUpdate(site, payload) ==
    [site EXCEPT
       !.name = IF payload.name = "" THEN @ ELSE payload.name,
       !.custom_domain = IF payload.custom_domain = "" THEN @
                         ELSE payload.custom_domain,
       !.build_settings = IF payload.repo = <<>> THEN @
                          ELSE <<ServerBuildSettings(payload.repo[1])>>]

(***************************************************************************)
(* resource_site.go                                                        *)
(***************************************************************************)
\* The six writable sub-fields of a repo block as a RepoInfo with the given
\* installation ID.
RepoInfo(block, inst) ==
    [cmd |-> block.command, deploy_key_id |-> block.deploy_key_id,
     dir |-> block.dir, provider |-> block.provider,
     repo_path |-> block.repo_path, repo_branch |-> block.repo_branch,
     installation_id |-> inst]

\* Variant of resourceSite_setupStruct that leaves InstallationID unset.
setupStruct_NoInstallationID(rd) ==
    [name |-> rd.name,
     custom_domain |-> rd.custom_domain,
     repo |-> IF GetOkList(rd.repo) THEN <<RepoInfo(rd.repo[1], 0)>>
              ELSE <<>>]

\* Variant of resourceSite_setupStruct that always allocates the RepoInfo,
\* leaving it empty when no repo block is declared.
setupStruct_AlwaysRepo(rd) ==
    [name |-> rd.name,
     custom_domain |-> rd.custom_domain,
     repo |-> IF GetOkList(rd.repo)
              THEN <<RepoInfo(rd.repo[1], rd.repo[1].installation_id)>>
              ELSE <<[cmd |-> "", deploy_key_id |-> "", dir |-> "",
                      provider |-> "", repo_path |-> "", repo_branch |-> "",
                      installation_id |-> 0]>>]

\* Variant of resourceSite_setupStruct with Cmd and Dir read from each
\* other's key.
setupStruct_SwappedKeys(rd) ==
    [name |-> rd.name,
     custom_domain |-> rd.custom_domain,
     repo |-> IF GetOkList(rd.repo)
              THEN <<[RepoInfo(rd.repo[1], rd.repo[1].installation_id)
                        EXCEPT !.cmd = rd.repo[1].dir,
                               !.dir = rd.repo[1].command]>>
              ELSE <<>>]

\* resourceSite_setupStruct: the SiteSetup payload of create and update.
resourceSite_setupStruct(rd) ==
    [name |-> rd.name,
     custom_domain |-> rd.custom_domain,
     repo |-> IF GetOkList(rd.repo)
              THEN <<[cmd |-> rd.repo[1].command,
                      deploy_key_id |-> rd.repo[1].deploy_key_id,
                      dir |-> rd.repo[1].dir,
                      provider |-> rd.repo[1].provider,
                      repo_path |-> rd.repo[1].repo_path,
                      repo_branch |-> rd.repo[1].repo_branch,
                      installation_id |-> rd.repo[1].installation_id]>>
              ELSE <<>>]

\* Variant of SiteIDParam that keys the call by the site's name.
SiteIDParam_ByName(rd) == rd.name

\* params.SiteID = d.Id(): the key of get-site, update-site and delete-site.
SiteIDParam(rd) == rd.id

\* Variant of IsRemovedRemotely without the test of the status code.
IsRemovedRemotely_AnyStatus(err) == err.type = "get-site-default"

\* The test of resourceSiteRead for "removed remotely": the error is a
\* GetSiteDefault whose code is 404.
IsRemovedRemotely(err) ==
    err.type = "get-site-default" /\ err.code = StatusNotFound

\* The repo block read from build settings bs.
BlockOf(bs) ==
    [command |-> bs.cmd, deploy_key_id |-> bs.deploy_key_id, dir |-> bs.dir,
     provider |-> bs.provider, repo_path |-> bs.repo_path,
     repo_branch |-> bs.repo_branch, installation_id |-> bs.installation_id]

\* Variant of SetFromSite that tests only that the build settings exist.
SetFromSite_NoRepoPathTest(rd, site) ==
    [rd EXCEPT !.name = site.name,
               !.custom_domain = site.custom_domain,
               !.deploy_url = site.deploy_url,
               !.account_slug = site.account_slug,
               !.account_name = site.account_name,
               !.repo = IF site.build_settings # <<>>
                        THEN <<BlockOf(site.build_settings[1])>>
                        ELSE <<>>]

\* Variant of SetFromSite whose first d.Set takes the name from the
\* ResourceData's custom_domain instead of the fetched site.
SetFromSite_NameFromData(rd, site) ==
    [rd EXCEPT !.name = rd.custom_domain,
               !.custom_domain = site.custom_domain,
               !.deploy_url = site.deploy_url,
               !.account_slug = site.account_slug,
               !.account_name = site.account_name,
               !.repo = IF /\ site.build_settings # <<>>
                           /\ site.build_settings[1].repo_path # ""
                        THEN <<BlockOf(site.build_settings[1])>>
                        ELSE <<>>]

\* The d.Set calls of resourceSiteRead for the fetched site.
SetFromSite(rd, site) ==
    LET cleared == [rd EXCEPT !.name = site.name,
                              !.custom_domain = site.custom_domain,
                              !.deploy_url = site.deploy_url,
                              !.account_slug = site.account_slug,
                              !.account_name = site.account_name,
                              !.repo = <<>>]
        bs == site.build_settings
    IN  IF bs # <<>> /\ bs[1].repo_path # ""
        THEN [cleared EXCEPT !.repo = <<BlockOf(bs[1])>>]
        ELSE cleared

\* Variant of resourceSiteRead that clears the repo attribute before the
\* get-site call instead of after it.
resourceSiteRead_ClearsFirst(rd, rem, fail) ==
    LET rd1 == [rd EXCEPT !.repo = <<>>]
        found == Lookup(rem, SiteIDParam(rd1))
        err == Answer("get-site", found, fail)
        call == Call("get-site", SiteIDParam(rd1), "", <<>>, err)
    IN  IF err # NoErr
        THEN IF IsRemovedRemotely(err)
             THEN [d |-> [rd1 EXCEPT !.id = ""], calls |-> <<call>>,
                   ret |-> NoErr]
             ELSE [d |-> rd1, calls |-> <<call>>, ret |-> err]
        ELSE [d |-> SetFromSite(rd1, found[1]), calls |-> <<call>>,
              ret |-> NoErr]

\* resourceSiteRead on ResourceData rd against the sites rem, the get-site
\* call answering fail when that is a failure: the ResourceData it leaves,
\* the calls it issued and the error it returns.
resourceSiteRead(rd, rem, fail) ==
    LET found == Lookup(rem, SiteIDParam(rd))
        err == Answer("get-site", found, fail)
        call == Call("get-site", SiteIDParam(rd), "", <<>>, err)
    IN  IF err # NoErr
        THEN IF IsRemovedRemotely(err)
             THEN [d |-> [rd EXCEPT !.id = ""], calls |-> <<call>>,
                   ret |-> NoErr]
             ELSE [d |-> rd, calls |-> <<call>>, ret |-> err]
        ELSE [d |-> SetFromSite(rd, found[1]), calls |-> <<call>>,
              ret |-> NoErr]

\* The sites after an out-of-band removal of id (gone) between a mutation
\* and the read that follows it.
Removed(rem, id, gone) == IF gone THEN [rem EXCEPT ![id] = <<>>] ELSE rem

\* Variant of CreateCall that takes the team path whenever the attribute
\* is present, empty or not (d.Get in place of d.GetOk).
CreateCall_AlwaysTeam(rd, fail) ==
    Call("create-site-in-team", "", rd.account_slug,
         <<resourceSite_setupStruct(rd)>>, fail)

\* The creation call resourceSiteCreate chooses for rd, answering fail.
CreateCall(rd, fail) ==
    IF GetOkString(rd.account_slug)
    THEN Call("create-site-in-team", "", rd.account_slug,
              <<resourceSite_setupStruct(rd)>>, fail)
    ELSE Call("create-site", "", "", <<resourceSite_setupStruct(rd)>>, fail)

\* resourceSiteCreate on rd: the creation call answers fail1 and, when it
\* succeeds, the server stores the new site under id; the site is removed
\* out of band before the trailing read when gone, and the trailing read
\* answers fail2.
resourceSiteCreate(rd, rem, id, fail1, gone, fail2) ==
    LET call == CreateCall(rd, fail1)
    IN  IF fail1 # NoErr
        THEN [d |-> rd, remote |-> rem, calls |-> <<call>>, ret |-> fail1]
        ELSE LET site == ServerCreate(id, call.account_slug,
                                      call.payload[1])
                 rem1 == Removed([rem EXCEPT ![id] = <<site>>], id, gone)
                 r == resourceSiteRead([rd EXCEPT !.id = id], rem1, fail2)
             IN  [d |-> r.d, remote |-> rem1,
                  calls |-> <<call>> \o r.calls, ret |-> r.ret]

\* Variant of resourceSiteUpdate that drops the error of update-site and
\* goes on to the read.
resourceSiteUpdate_DropsError(rd, rem, fail1, gone, fail2) ==
    LET found == Lookup(rem, SiteIDParam(rd))
        err == Answer("update-site", found, fail1)
        call == Call("update-site", SiteIDParam(rd), "",
                     <<resourceSite_setupStruct(rd)>>, err)
        rem1 == IF err # NoErr THEN rem
                ELSE Removed([rem EXCEPT ![call.site_id] =
                                <<ServerUpdate(found[1], call.payload[1])>>],
                             call.site_id, gone)
        r == resourceSiteRead(rd, rem1, fail2)
    IN  [d |-> r.d, remote |-> rem1, calls |-> <<call>> \o r.calls,
         ret |-> r.ret]

\* resourceSiteUpdate on rd: update-site answers fail1 and, when it
\* succeeds, the server stores the payload; the trailing read as in
\* resourceSiteCreate.
resourceSiteUpdate(rd, rem, fail1, gone, fail2) ==
    LET found == Lookup(rem, SiteIDParam(rd))
        err == Answer("update-site", found, fail1)
        call == Call("update-site", SiteIDParam(rd), "",
                     <<resourceSite_setupStruct(rd)>>, err)
    IN  IF err # NoErr
        THEN [d |-> rd, remote |-> rem, calls |-> <<call>>, ret |-> err]
        ELSE LET site == ServerUpdate(found[1], call.payload[1])
                 rem1 == Removed([rem EXCEPT ![call.site_id] = <<site>>],
                                 call.site_id, gone)
                 r == resourceSiteRead(rd, rem1, fail2)
             IN  [d |-> r.d, remote |-> rem1,
                  calls |-> <<call>> \o r.calls, ret |-> r.ret]

\* resourceSiteDelete on rd: delete-site answers fail1 and, when it
\* succeeds, the server removes the site.
resourceSiteDelete(rd, rem, fail1) ==
    LET found == Lookup(rem, SiteIDParam(rd))
        err == Answer("delete-site", found, fail1)
        call == Call("delete-site", SiteIDParam(rd), "", <<>>, err)
    IN  [d |-> rd,
         remote |-> IF err = NoErr THEN [rem EXCEPT ![call.site_id] = <<>>]
                    ELSE rem,
         calls |-> <<call>>, ret |-> err]

(***************************************************************************)
(* The state machine: one action per lifecycle verb                        *)
(***************************************************************************)
Init ==
    /\ d = EmptyData
    /\ remote = [id \in SiteIds |-> <<>>]
    /\ nextId = 0
    /\ op = "none"
    /\ d0 = EmptyData
    /\ calls = <<>>
    /\ ret = NoErr

\* The orchestrator creates the resource from a configuration.
Create ==
    /\ d.id = ""
    /\ nextId < MaxSites
    /\ \E decl \in Declared, env \in MutationOutcomes("create-site") :
         LET rd == Planned(EmptyData, decl)
             r == resourceSiteCreate(rd, remote, SiteIdOf(nextId + 1),
                                     env.fail1, env.gone, env.fail2)
         IN  /\ d' = r.d
             /\ remote' = r.remote
             /\ nextId' = IF env.fail1 = NoErr THEN nextId + 1 ELSE nextId
             /\ op' = "Create"
             /\ d0' = rd
             /\ calls' = r.calls
             /\ ret' = r.ret

\* The orchestrator refreshes the tracked resource.
Read ==
    /\ d.id # ""
    /\ \E fail \in Outcomes("get-site") :
         LET r == resourceSiteRead(d, remote, fail)
         IN  /\ d' = r.d
             /\ op' = "Read"
             /\ d0' = d
             /\ calls' = r.calls
             /\ ret' = r.ret
    /\ UNCHANGED <<remote, nextId>>

\* The orchestrator applies a changed configuration to the tracked resource.
Update ==
    /\ d.id # ""
    /\ \E decl \in Declared, env \in MutationOutcomes("update-site") :
         LET rd == Planned(d, decl)
             r == resourceSiteUpdate(rd, remote, env.fail1, env.gone,
                                     env.fail2)
         IN  /\ d' = r.d
             /\ remote' = r.remote
             /\ op' = "Update"
             /\ d0' = rd
             /\ calls' = r.calls
             /\ ret' = r.ret
    /\ UNCHANGED nextId

\* The orchestrator destroys the tracked resource.
Delete ==
    /\ d.id # ""
    /\ \E fail1 \in Outcomes("delete-site") :
         LET r == resourceSiteDelete(d, remote, fail1)
         IN  /\ d' = r.d
             /\ remote' = r.remote
             /\ op' = "Delete"
             /\ d0' = d
             /\ calls' = r.calls
             /\ ret' = r.ret
    /\ UNCHANGED nextId

\* After a Delete that returned no error the orchestrator drops the
\* resource: the identifier is cleared.
Forget ==
    /\ op = "Delete"
    /\ ret = NoErr
    /\ d' = EmptyData
    /\ op' = "Forget"
    /\ d0' = d
    /\ calls' = <<>>
    /\ UNCHANGED <<remote, nextId, ret>>

\* Import by ID (ImportStatePassthrough): the ResourceData gets the given
\* ID and nothing else; the orchestrator reads it afterwards.
Import ==
    /\ d.id = ""
    /\ \E id \in SiteIds :
         d' = [EmptyData EXCEPT !.id = id]
    /\ op' = "Import"
    /\ d0' = d
    /\ calls' = <<>>
    /\ ret' = NoErr
    /\ UNCHANGED <<remote, nextId>>

\* Build settings an out-of-band change may leave on the site.
DriftBuildSettings ==
    {<<>>,
     <<[cmd |-> "make", deploy_key_id |-> "key2", dir |-> "out",
        provider |-> "github", repo_path |-> "", repo_branch |-> "main",
        installation_id |-> 0]>>,
     <<[cmd |-> "make", deploy_key_id |-> "", dir |-> "out",
        provider |-> "github", repo_path |-> "org/other",
        repo_branch |-> "next", installation_id |-> 43]>>}

\* The tracked site changes out of band: it is removed, or its build
\* settings are changed by someone else.
Drift ==
    /\ d.id # ""
    /\ Lookup(remote, d.id) # <<>>
    /\ \/ remote' = [remote EXCEPT ![d.id] = <<>>]
       \/ \E bs \in DriftBuildSettings :
            remote' = [remote EXCEPT ![d.id] =
                         <<[@[1] EXCEPT !.build_settings = bs]>>]
    /\ op' = "Drift"
    /\ d0' = d
    /\ calls' = <<>>
    /\ ret' = NoErr
    /\ UNCHANGED <<d, nextId>>

Next == Create \/ Read \/ Update \/ Delete \/ Forget \/ Import \/ Drift

Spec == Init /\ [][Next]_vars

(***************************************************************************)
(* Properties                                                              *)
(***************************************************************************)
\* The positions in calls of the calls that carry a setup payload.
PayloadCalls == {i \in DOMAIN calls : calls[i].payload # <<>>}

\* The positions in calls of the creation calls.
CreationCalls ==
    {i \in DOMAIN calls : calls[i].api \in {"create-site",
                                            "create-site-in-team"}}

\* The six writable sub-fields of the payload's repo object equal those of
\* the repo block.
SameWritableFields(info, block) ==
    /\ info.cmd = block.command
    /\ info.deploy_key_id = block.deploy_key_id
    /\ info.dir = block.dir
    /\ info.provider = block.provider
    /\ info.repo_path = block.repo_path
    /\ info.repo_branch = block.repo_branch

C2_OneCreationCall ==
    op = "Create" =>
      /\ CreationCalls = {1}
      /\ IF d0.account_slug # ""
         THEN /\ calls[1].api = "create-site-in-team"
              /\ calls[1].account_slug = d0.account_slug
         ELSE calls[1].api = "create-site"

\* A Create of a configuration with a team: the team-scoped call, then the
\* trailing read, and no default call.
C2_Witness ==
    /\ op = "Create"
    /\ d0.account_slug = "team-x"
    /\ Len(calls) = 2
    /\ calls[1].api = "create-site-in-team"
    /\ calls[1].account_slug = "team-x"

\* C9: the payload has a repo object iff the repo attribute is declared
\* (none at all when it is not), and name and custom_domain are passed
\* through unchanged, the empty name as the empty string.
C9_NoRepoObjectWithoutRepo ==
    \A i \in PayloadCalls :
        LET p == calls[i].payload[1]
        IN  /\ (p.repo = <<>>) <=> (d0.repo = <<>>)
            /\ p.name = d0.name
            /\ p.custom_domain = d0.custom_domain

\* A Create of a configuration with no repo and no name.
C9_Witness ==
    /\ op = "Create"
    /\ d0.repo = <<>>
    /\ d0.name = ""
    /\ calls[1].payload[1].repo = <<>>
    /\ calls[1].payload[1].name = ""

\* The positions in calls of the get-site calls.
GetCalls == {i \in DOMAIN calls : calls[i].api = "get-site"}

GetSiteNotFound == DefaultError("get-site", StatusNotFound)

\* C3: whenever a get-site call of Read (run on its own or as the trailing
\* read of Create or Update) answers not-found, the identifier is cleared
\* and the verb returns no error; every other failure of get-site is the
\* error returned, and the identifier stays the one the call was keyed by.
C3_NotFoundClearsId ==
    \A i \in GetCalls :
        LET a == calls[i].answer
        IN  /\ a = GetSiteNotFound => d.id = "" /\ ret = NoErr
            /\ (a # NoErr /\ a # GetSiteNotFound) =>
                 /\ ret = a
                 /\ d.id = calls[i].site_id
                 /\ d.id # ""

\* A Create whose trailing read found the new site already removed: it
\* returned success with an empty identifier.
C3_Witness ==
    /\ op = "Create"
    /\ Len(calls) = 2
    /\ calls[1].answer = NoErr
    /\ calls[2].answer = GetSiteNotFound
    /\ ret = NoErr
    /\ d.id = ""

\* C4: after every successful read (get-site answered success), the
\* tracked repo attribute is present iff the remote site has build settings
\* with a non-empty repo_path, and then holds the remote's fields; it is
\* otherwise absent, whatever it was before.
C4_RepoIffRepoPath ==
    \A i \in GetCalls :
        calls[i].answer = NoErr =>
          LET bs == remote[calls[i].site_id][1].build_settings
          IN  /\ (d.repo # <<>>) <=> (bs # <<>> /\ bs[1].repo_path # "")
              /\ d.repo # <<>> =>
                   /\ d.repo[1].repo_path # ""
                   /\ d.repo = <<BlockOf(bs[1])>>

\* A Read that found build settings with an empty repo_path while a repo
\* was tracked, and cleared the attribute.
C4_Witness ==
    /\ op = "Read"
    /\ ret = NoErr
    /\ d.id # ""
    /\ d0.repo # <<>>
    /\ d.repo = <<>>
    /\ remote[d.id][1].build_settings # <<>>

\* C5: a Read, Update or Delete leaves the identifier as it was or clears
\* it, and every call it issues is keyed by exactly the identifier it was
\* given and by nothing else; the trailing read of Create is keyed by the
\* identifier the creation call returned.
C5_SiteIdImmutable ==
    [][/\ op' \in {"Read", "Update", "Delete"} =>
            /\ d.id # ""
            /\ d'.id \in {d.id, ""}
            /\ calls' # <<>>
            /\ \A i \in DOMAIN calls' :
                  /\ calls'[i].site_id = d.id
                  /\ calls'[i].account_slug = ""
       /\ op' = "Create" =>
            /\ d'.id \in {"", SiteIdOf(nextId')}
            /\ \A i \in DOMAIN calls' \ {1} :
                  /\ calls'[i].api = "get-site"
                  /\ calls'[i].site_id = SiteIdOf(nextId')]_vars

\* An Update of the second site created: both of its calls carry that ID
\* and the identifier is still that ID.
C5_Witness ==
    /\ op = "Update"
    /\ nextId = 2
    /\ Len(calls) = 2
    /\ d.id = SiteIdOf(2)
    /\ calls[1].site_id = SiteIdOf(2)
    /\ calls[2].site_id = SiteIdOf(2)

\* C6: round trip.  After a Create of a configuration with a repo whose
\* trailing read succeeded, the tracked repo has the six declared fields,
\* the installation_id the server holds, the declared name when one was
\* declared, and the declared custom_domain.
C6_CreateReadRoundTrip ==
    (op = "Create" /\ ret = NoErr /\ d.id # "" /\ d0.repo # <<>>) =>
      /\ d.repo # <<>>
      /\ SameWritableFields(RepoInfo(d.repo[1], 0), d0.repo[1])
      /\ d.repo[1].installation_id =
           remote[d.id][1].build_settings[1].installation_id
      /\ d.repo[1].installation_id # 0
      /\ d0.name # "" => d.name = d0.name
      /\ d.custom_domain = d0.custom_domain

\* The Create of the gitlab configuration, read back with the server's
\* installation ID.
C6_Witness ==
    /\ op = "Create"
    /\ ret = NoErr
    /\ d.id # ""
    /\ d0.name = "site1"
    /\ d.name = "site1"
    /\ d.repo # <<>>
    /\ d.repo[1].provider = "gitlab"
    /\ d.repo[1].dir = "web"
    /\ d.repo[1].installation_id = 41

\* C7: when the mutation of Create or Update succeeded and the trailing
\* get-site failed other than by not-found, the verb issued those two calls
\* and no other, returns the read's error, and leaves every attribute as it
\* was handed to the verb; after a Create the identifier is the new site's.
C7_TrailingReadFailure ==
    (/\ op \in {"Create", "Update"}
     /\ calls[1].answer = NoErr
     /\ \E i \in GetCalls :
           calls[i].answer # NoErr /\ calls[i].answer # GetSiteNotFound) =>
      /\ Len(calls) = 2
      /\ calls[2].api = "get-site"
      /\ ret = calls[2].answer
      /\ d = [d0 EXCEPT !.id = calls[2].site_id]
      /\ op = "Create" => d.id = SiteIdOf(nextId) /\ d.id # ""

\* A Create whose site exists remotely and whose trailing read failed.
C7_Witness ==
    /\ op = "Create"
    /\ Len(calls) = 2
    /\ calls[2].answer = DefaultError("get-site", 500)
    /\ ret = DefaultError("get-site", 500)
    /\ d.id = SiteIdOf(1)
    /\ d.deploy_url = ""
    /\ remote[d.id] # <<>>

\* C8: when the mutation call of Create, Update or Delete fails, the verb
\* returns that error, issued that one call and no other, and leaves the
\* ResourceData as it was handed over; a failed Create has no identifier.
C8_MutationFailure ==
    (op \in {"Create", "Update", "Delete"} /\ calls[1].answer # NoErr) =>
      /\ Len(calls) = 1
      /\ ret = calls[1].answer
      /\ d = d0
      /\ op = "Create" => d.id = ""

\* An Update whose update-site call failed.
C8_Witness ==
    /\ op = "Update"
    /\ calls[1].api = "update-site"
    /\ calls[1].answer = DefaultError("update-site", 500)
    /\ ret = DefaultError("update-site", 500)
    /\ Len(calls) = 1

\* C10: a successful Read that follows a successful Read directly (the
\* remote site unchanged, no Update in between) leaves the whole
\* ResourceData as the first Read left it.
C10_ReadIdempotent ==
    [][(/\ op = "Read" /\ ret = NoErr /\ d.id # ""
        /\ op' = "Read" /\ calls'[1].answer = NoErr) => d' = d]_vars

\* A successful Read of a populated ResourceData (repo and deploy_url set
\* by an earlier read) that left it exactly as it found it.
C10_Witness ==
    /\ op = "Read"
    /\ ret = NoErr
    /\ d.id # ""
    /\ d0 = d
    /\ d.repo # <<>>
    /\ d.deploy_url # ""

====
